---- MODULE Spec2Model ----
(***************************************************************************)
(* Word-level model of the segregated-list boundary-tag allocator of       *)
(* src/mm.c.                                                               *)
(*                                                                         *)
(* The heap is an array of 32-bit words, mem[0 .. brk-1], indexed by the   *)
(* word offset from mem_heap_lo().  A boundary tag {inuse:1, size:31} is   *)
(* one word, 2*size + inuse.  A block pointer is the offset of its header; *)
(* the payload and the embedded list_elem both start one word later.       *)
(* Pointers to list elements are word offsets; the static sentinels of     *)
(* segList[k] (outside the heap) are the negative numbers list_head(k)    *)
(* and list_tail(k); NULL is -1.                                           *)
(***************************************************************************)
EXTENDS Integers, Sequences, FiniteSets, TLC

\* ------------------------------------------------------------------------
\* Program constants (src/mm.c:61-65)
WSIZE == 4
DSIZE == 8
MIN_BLOCK_SIZE_WORDS == 4
CHUNKSIZE == 256
NLISTS == 20
\* sizeof(struct boundary_tag): one 32-bit word
TAG_BYTES == 4

\* ------------------------------------------------------------------------
\* Bounds of the model
\* mem_sbrk refuses to grow the heap beyond this many words (memlib MAX_HEAP)
MaxHeapWords == 514
\* the client holds at most this many live pointers at once
MaxLive == 2
\* the client makes at most this many calls of the public interface
MaxCalls == 5

NULL == -1
SBRK_ERR == -1

MAX(x, y) == IF x > y THEN x ELSE y

\* ------------------------------------------------------------------------
\* size_t: a 32-bit unsigned byte count, kept as doublewords q and bytes r
\* (value 8*q + r, 0 <= q < 2^29, 0 <= r < 8) so that every value of the
\* type is representable; arithmetic is modulo 2^32.
SZ_Q == 2^29
SizeT(q, r) == [q |-> q, r |-> r]
SizeOf(n) == [q |-> n \div 8, r |-> n % 8]
\* a test for zero that never succeeds
size_never_zero(s) == FALSE

size_is_zero(s) == s.q = 0 /\ s.r = 0
\* s + n (mod 2^32), for a small byte count n
size_add(s, n) ==
    [q |-> (s.q + ((s.r + n) \div 8)) % SZ_Q, r |-> (s.r + n) % 8]
\* s & ~(DSIZE - 1)
size_mask(s) == [q |-> s.q, r |-> 0]
\* s / WSIZE
size_div_wsize(s) == (DSIZE \div WSIZE) * s.q + (s.r \div WSIZE)
\* n <= s, for an integer byte count n >= 0
size_ge(s, n) == (n \div 8 < s.q) \/ (n \div 8 = s.q /\ n % 8 <= s.r)
\* ceil(min(s, 4*w) / 4): the words that hold the first min(s, 4*w) bytes
size_words_capped(s, w) ==
    IF size_ge(s, WSIZE * w) THEN w ELSE (8 * s.q + s.r + WSIZE - 1) \div WSIZE

\* the adjustment without the round-up to a doubleword
adjust_size_unaligned(size) ==
    MAX(MIN_BLOCK_SIZE_WORDS, size_div_wsize(size_add(size, 2 * TAG_BYTES)))

\* The adjusted block size in words of a request of `size` bytes
adjust_size(size) ==
    LET s1 == size_add(size, 2 * TAG_BYTES)
        s2 == size_mask(size_add(s1, DSIZE - 1))
    IN  MAX(MIN_BLOCK_SIZE_WORDS, size_div_wsize(s2))

\* ------------------------------------------------------------------------
\* Boundary tags
Tag(inuse, size) == 2 * size + inuse
TagInuse(w) == w % 2
TagSize(w) == w \div 2
FENCE == Tag(1, 0)
\* content of memory handed out by the region provider and never written
FRESH == 0

\* ------------------------------------------------------------------------
\* The intrusive list (list.h): struct list { head, tail }, each a
\* list_elem { prev, next }.  A heap element at word offset e keeps prev in
\* mem[e] and next in mem[e+1].
list_head(k) == -2 - 2 * k
list_tail(k) == -3 - 2 * k
IsSentinel(e) == e <= -2
IsTail(e) == e <= -2 /\ (-e) % 2 = 1
ListOf(e) == (-2 - e) \div 2

elem_next(st, e) ==
    IF IsSentinel(e)
    THEN (IF IsTail(e) THEN st.seg[ListOf(e)].tn ELSE st.seg[ListOf(e)].hn)
    ELSE st.mem[e + 1]

elem_prev(st, e) ==
    IF IsSentinel(e)
    THEN (IF IsTail(e) THEN st.seg[ListOf(e)].tp ELSE st.seg[ListOf(e)].hp)
    ELSE st.mem[e]

set_next(st, e, v) ==
    IF IsSentinel(e)
    THEN (IF IsTail(e) THEN [st EXCEPT !.seg[ListOf(e)].tn = v]
                       ELSE [st EXCEPT !.seg[ListOf(e)].hn = v])
    ELSE [st EXCEPT !.mem[e + 1] = v]

set_prev(st, e, v) ==
    IF IsSentinel(e)
    THEN (IF IsTail(e) THEN [st EXCEPT !.seg[ListOf(e)].tp = v]
                       ELSE [st EXCEPT !.seg[ListOf(e)].hp = v])
    ELSE [st EXCEPT !.mem[e] = v]

list_init(st, k) ==
    [st EXCEPT !.seg[k] = [hp |-> NULL, hn |-> list_tail(k), tp |-> list_head(k), tn |-> NULL]]

list_begin(st, k) == st.seg[k].hn
list_end(k) == list_tail(k)
list_next(st, e) == elem_next(st, e)
list_empty(st, k) == list_begin(st, k) = list_end(k)

\* insert elem just before `before`
list_insert(st, before, elem) ==
    LET s1 == set_prev(st, elem, elem_prev(st, before))
        s2 == set_next(s1, elem, before)
        s3 == set_next(s2, elem_prev(s2, before), elem)
    IN  set_prev(s3, before, elem)

list_push_front(st, k, elem) == list_insert(st, list_begin(st, k), elem)

list_remove(st, elem) ==
    LET s1 == set_next(st, elem_prev(st, elem), elem_next(st, elem))
    IN  set_prev(s1, elem_next(s1, elem), elem_prev(s1, elem))

\* ------------------------------------------------------------------------
\* The region provider (memlib): the heap grows by n words unless that
\* would exceed its maximum; the result is the old break.  A refusal is
\* noted in st.refused, which belongs to the provider, not to the heap.
mem_sbrk(st, n) ==
    IF st.brk + n > MaxHeapWords
    THEN [st |-> [st EXCEPT !.refused = TRUE], ret |-> SBRK_ERR]
    ELSE [st |-> [st EXCEPT !.brk = st.brk + n,
                            !.mem = [i \in 0 .. (st.brk + n - 1) |->
                                       IF i < st.brk THEN st.mem[i] ELSE FRESH]],
          ret |-> st.brk]

\* ------------------------------------------------------------------------
\* Block primitives
blk_size(st, blk) == TagSize(st.mem[blk])
prev_blk_footer(blk) == blk - 1
next_blk_header(st, blk) == blk + TagSize(st.mem[blk])
prev_blk(st, blk) == blk - TagSize(st.mem[prev_blk_footer(blk)])
next_blk(st, blk) == blk + TagSize(st.mem[blk])
get_footer(st, blk) == blk + TagSize(st.mem[blk]) - 1
\* address of the list_elem of a block, and the block of a list_elem
elem_of(blk) == blk + 1
get_blk(e) == e - (TAG_BYTES \div WSIZE)

\* mark_block_used that writes the header alone
mark_block_used_no_footer(st, blk, size) ==
    [st EXCEPT !.mem[blk] = Tag(1, size)]

mark_block_used(st, blk, size) ==
    LET s1 == [st EXCEPT !.mem[blk] = Tag(1, size)]
    IN  [s1 EXCEPT !.mem[get_footer(s1, blk)] = s1.mem[blk]]

mark_block_free(st, blk, size) ==
    LET s1 == [st EXCEPT !.mem[blk] = Tag(0, size)]
    IN  [s1 EXCEPT !.mem[get_footer(s1, blk)] = s1.mem[blk]]

RECURSIVE init_lists_from(_, _)
init_lists_from(st, count) ==
    IF count < NLISTS THEN init_lists_from(list_init(st, count), count + 1) ELSE st

init_lists(st) == init_lists_from(st, 0)

is_fence(st, tag) == TagInuse(st.mem[tag]) # 0 /\ TagSize(st.mem[tag]) = 0

\* ------------------------------------------------------------------------
\* insert: the list-choosing loop shifts asize itself, so the ordering scan
\* that follows compares the shifted value
RECURSIVE insert_bucket(_, _)
insert_bucket(count, asize) ==
    IF count < NLISTS - 1 /\ asize > 1
    THEN insert_bucket(count + 1, asize \div 2)
    ELSE <<count, asize>>

RECURSIVE insert_scan(_, _, _, _)
insert_scan(st, count, el, asize) ==
    IF el = list_end(count) THEN el
    ELSE IF asize <= blk_size(st, get_blk(el)) THEN el
    ELSE insert_scan(st, count, list_next(st, el), asize)

insert(st, bp, asize0) ==
    LET b == insert_bucket(0, asize0)
        count == b[1]
        asize == b[2]
        e == elem_of(bp)
    IN  IF list_empty(st, count) THEN list_push_front(st, count, e)
        ELSE list_insert(st, insert_scan(st, count, list_begin(st, count), asize), e)

\* ------------------------------------------------------------------------
coalesce(st, bp) ==
    LET prev_alloc == TagInuse(st.mem[prev_blk_footer(bp)]) # 0
        next_alloc == TagInuse(st.mem[next_blk_header(st, bp)]) # 0
        size == blk_size(st, bp)
        \* insert(bp, blk_size(bp)); return bp
        inserted(s, blk) == [st |-> insert(s, blk, blk_size(s, blk)), ret |-> blk]
        \* Case 2, after the list_remove
        case2(s1) ==
            inserted(mark_block_free(s1, bp, size + blk_size(s1, next_blk(s1, bp))), bp)
        \* Case 3, after bp = prev_blk(bp) and the list_remove
        case3(s1, pb) ==
            inserted(mark_block_free(s1, pb, size + blk_size(s1, pb)), pb)
        \* Case 4, after the first and after the second list_remove
        case4b(s2) ==
            inserted(mark_block_free(s2, prev_blk(s2, bp),
                         size + blk_size(s2, next_blk(s2, bp))
                              + blk_size(s2, prev_blk(s2, bp))),
                     prev_blk(s2, bp))
        case4a(s1) == case4b(list_remove(s1, elem_of(prev_blk(s1, bp))))
    IN  IF prev_alloc /\ next_alloc
        THEN [st |-> insert(st, bp, size), ret |-> bp]
        ELSE IF prev_alloc /\ ~next_alloc
        THEN case2(list_remove(st, elem_of(next_blk(st, bp))))
        ELSE IF ~prev_alloc /\ next_alloc
        THEN case3(list_remove(st, elem_of(prev_blk(st, bp))), prev_blk(st, bp))
        ELSE case4a(list_remove(st, elem_of(next_blk(st, bp))))

\* ------------------------------------------------------------------------
\* extend_heap that turns the old epilogue into a header before it looks at
\* the result of mem_sbrk
extend_heap_mark_first(st, words0) ==
    LET w1 == 2 * ((words0 + 1) \div 2)
        words == IF w1 < MIN_BLOCK_SIZE_WORDS THEN MIN_BLOCK_SIZE_WORDS ELSE w1
        r == mem_sbrk(st, words)
    IN  IF r.ret = SBRK_ERR
        THEN [st |-> [r.st EXCEPT !.mem[st.brk - 1] = Tag(0, words)], ret |-> NULL]
        ELSE LET blk == r.ret - (TAG_BYTES \div WSIZE)
                 s1 == mark_block_free(r.st, blk, words)
                 s2 == [s1 EXCEPT !.mem[next_blk(s1, blk)] = FENCE]
             IN  coalesce(s2, blk)

extend_heap(st, words0) ==
    LET w1 == 2 * ((words0 + 1) \div 2)
        words == IF w1 < MIN_BLOCK_SIZE_WORDS THEN MIN_BLOCK_SIZE_WORDS ELSE w1
        r == mem_sbrk(st, words)
    IN  IF r.ret = SBRK_ERR
        THEN [st |-> r.st, ret |-> NULL]
        ELSE LET blk == r.ret - (TAG_BYTES \div WSIZE)
                 s1 == mark_block_free(r.st, blk, words)
                 s2 == [s1 EXCEPT !.mem[next_blk(s1, blk)] = FENCE]
             IN  coalesce(s2, blk)

\* ------------------------------------------------------------------------
mm_init(st) ==
    LET r == mem_sbrk(init_lists(st), (2 * TAG_BYTES) \div WSIZE)
        \* the result, from that of extend_heap
        extended(e) == [st |-> e.st, ret |-> IF e.ret = NULL THEN -1 ELSE 0]
        \* after a successful mem_sbrk
        grown(s, initial) ==
            extended(extend_heap([s EXCEPT !.mem[initial] = FENCE,
                                           !.mem[initial + 1] = FENCE], CHUNKSIZE))
    IN  IF r.ret = SBRK_ERR
        THEN [st |-> r.st, ret |-> -1]
        ELSE grown(r.st, r.ret)

\* ------------------------------------------------------------------------
\* find_fit: the starting list, then first fit front to back, list by list
RECURSIVE find_fit_start(_, _)
find_fit_start(currentlist, csize) ==
    IF currentlist < NLISTS - 1 /\ csize > 1
    THEN find_fit_start(currentlist + 1, csize \div 2)
    ELSE currentlist

RECURSIVE find_fit_list(_, _, _, _)
find_fit_list(st, currentlist, e, asize) ==
    IF e = list_end(currentlist) THEN NULL
    ELSE IF blk_size(st, get_blk(e)) >= asize THEN get_blk(e)
    ELSE find_fit_list(st, currentlist, list_next(st, e), asize)

RECURSIVE find_fit_from(_, _, _)
find_fit_from(st, currentlist, asize) ==
    IF currentlist >= NLISTS THEN NULL
    ELSE IF list_empty(st, currentlist) THEN find_fit_from(st, currentlist + 1, asize)
    ELSE LET bp == find_fit_list(st, currentlist, list_begin(st, currentlist), asize)
         IN  IF bp # NULL THEN bp ELSE find_fit_from(st, currentlist + 1, asize)

\* find_fit that searches the starting list alone and never falls back to
\* the lists of larger sizes
find_fit_one_list(st, asize) ==
    find_fit_list(st, find_fit_start(0, asize),
                  list_begin(st, find_fit_start(0, asize)), asize)

\* find_fit that starts its search one list too far
find_fit_skip_start(st, asize) ==
    find_fit_from(st, find_fit_start(0, asize) + 1, asize)

find_fit(st, asize) == find_fit_from(st, find_fit_start(0, asize), asize)

\* ------------------------------------------------------------------------
\* place that hands out the low end of a split block and re-inserts the
\* remainder
place_used_low(st, bp, asize) ==
    LET csize == blk_size(st, bp)
        inserted(s, blk) == insert(s, blk, blk_size(s, blk))
    IN  IF csize - asize >= MIN_BLOCK_SIZE_WORDS
        THEN [st |-> inserted(mark_block_free(mark_block_used(list_remove(st, elem_of(bp)),
                                                              bp, asize),
                                              bp + asize, csize - asize),
                              bp + asize),
              ret |-> bp]
        ELSE [st |-> mark_block_used(list_remove(st, elem_of(bp)), bp, csize), ret |-> bp]

\* place that splits off any remainder, however small
place_split_small(st, bp, asize) ==
    LET csize == blk_size(st, bp)
    IN  IF csize - asize > 0
        THEN LET s1 == mark_block_free(st, bp, csize - asize)
                 new == bp + blk_size(s1, bp)
             IN  [st |-> mark_block_used(s1, new, asize), ret |-> new]
        ELSE LET s1 == list_remove(st, elem_of(bp))
             IN  [st |-> mark_block_used(s1, bp, csize), ret |-> bp]

\* place that leaves a block it hands out whole in its list
place_keep_listed(st, bp, asize) ==
    LET csize == blk_size(st, bp)
    IN  IF csize - asize >= MIN_BLOCK_SIZE_WORDS
        THEN LET s1 == mark_block_free(st, bp, csize - asize)
                 new == bp + blk_size(s1, bp)
             IN  [st |-> mark_block_used(s1, new, asize), ret |-> new]
        ELSE [st |-> mark_block_used(st, bp, csize), ret |-> bp]

\* place: the free remainder keeps the low address (and its list position),
\* the used block takes the high end
place(st, bp, asize) ==
    LET csize == blk_size(st, bp)
    IN  IF csize - asize >= MIN_BLOCK_SIZE_WORDS
        THEN LET s1 == mark_block_free(st, bp, csize - asize)
                 new == bp + blk_size(s1, bp)
             IN  [st |-> mark_block_used(s1, new, asize), ret |-> new]
        ELSE LET s1 == list_remove(st, elem_of(bp))
             IN  [st |-> mark_block_used(s1, bp, csize), ret |-> bp]

\* payload pointer of a block, block of a payload pointer
payload_of(blk) == blk + 1
block_of(ptr) == ptr - 1

\* ------------------------------------------------------------------------
mm_malloc(st0, size) ==
    LET awords == adjust_size(size)
        \* place(bp, awords); return bp->payload
        placed(p) == [st |-> p.st, ret |-> payload_of(p.ret)]
        \* after extend_heap
        extended(e) ==
            IF e.ret = NULL
            THEN [st |-> e.st, ret |-> NULL]
            ELSE placed(place(e.st, e.ret, awords))
        \* after find_fit
        fitted(st, bp) ==
            IF bp # NULL
            THEN placed(place(st, bp, awords))
            ELSE extended(extend_heap(st, MAX(awords, CHUNKSIZE)))
        \* after the lazy initialisation
        body(st) ==
            IF size_is_zero(size)
            THEN [st |-> st, ret |-> NULL]
            ELSE fitted(st, find_fit(st, awords))
    IN  body(IF st0.seg[0].hn = NULL THEN mm_init(st0).st ELSE st0)

mm_free(st0, ptr) ==
    LET blk == block_of(ptr)
        \* after the lazy initialisation
        body(st) == coalesce(mark_block_free(st, blk, blk_size(st, blk)), blk).st
    IN  IF ptr = NULL THEN st0
        ELSE body(IF st0.seg[0].hn = NULL THEN mm_init(st0).st ELSE st0)

\* memcpy(dst, src, n words): the regions never overlap here
memcpy(st, dst, src, n) ==
    [st EXCEPT !.mem = [i \in DOMAIN st.mem |->
                          IF i >= dst /\ i < dst + n THEN st.mem[src + (i - dst)]
                          ELSE st.mem[i]]]

\* the shrink of mm_realloc that marks the tail free and leaves it unlisted
mm_realloc_shrink_no_insert(st, oldblock, oldsize, asize) ==
    IF oldsize - asize >= MIN_BLOCK_SIZE_WORDS
    THEN mark_block_free(mark_block_used(st, oldblock, asize),
                         oldblock + asize, oldsize - asize)
    ELSE st

\* mm_realloc, Case 1 (asize <= oldsize): split off the tail if it is a block
mm_realloc_shrink(st, oldblock, oldsize, asize) ==
    LET \* insert(next_bp, blk_size(next_bp))
        inserted(s, blk) == insert(s, blk, blk_size(s, blk))
    IN  IF oldsize - asize >= MIN_BLOCK_SIZE_WORDS
        THEN inserted(mark_block_free(mark_block_used(st, oldblock, asize),
                                      oldblock + asize, oldsize - asize),
                      oldblock + asize)
        ELSE st

\* the absorption of mm_realloc that leaves the absorbed block in its list
mm_realloc_absorb_keep_listed(st, oldblock, oldsize, nb) ==
    mark_block_used(st, oldblock, oldsize + blk_size(st, nb))

\* mm_realloc, Cases 2 and 4 after extend_heap:
\* list_remove(&nb->elem); mark_block_used(oldblock, oldsize + blk_size(nb))
mm_realloc_absorb(st, oldblock, oldsize, nb) ==
    LET removed(s) == mark_block_used(s, oldblock, oldsize + blk_size(s, nb))
    IN  removed(list_remove(st, elem_of(nb)))

\* mm_realloc for a block and a size that are not null: the four in-place
\* cases, then malloc + memcpy + free
mm_realloc_resize(st, ptr, size) ==
    LET oldblock == block_of(ptr)
        oldsize == blk_size(st, oldblock)
        asize == adjust_size(size)
        next_bp == oldblock + oldsize
        \* insert(blk, blk_size(blk)); return ptr
        inserted(s, blk) == [st |-> insert(s, blk, blk_size(s, blk)), ret |-> ptr]
        \* list_remove(&nb->elem); mark_block_used(oldblock, oldsize + blk_size(nb))
        absorbed(s, nb) ==
            [st |-> mm_realloc_absorb(s, oldblock, oldsize, nb), ret |-> ptr]
        \* Case 2, after extend_heap
        case2(e) ==
            IF e.ret = NULL THEN [st |-> e.st, ret |-> NULL] ELSE absorbed(e.st, e.ret)
        \* Case 3 with a split, after list_remove and mark_block_used
        case3(s2, next_size) ==
            inserted(mark_block_free(s2, oldblock + blk_size(s2, oldblock),
                                     oldsize + next_size - asize),
                     oldblock + blk_size(s2, oldblock))
        \* Case 4, after extend_heap
        case4(e) ==
            IF e.ret = NULL THEN [st |-> e.st, ret |-> NULL] ELSE absorbed(e.st, next_bp)
        \* the fallback, after mm_malloc
        moved(m) ==
            IF m.ret = NULL
            THEN [st |-> m.st, ret |-> NULL]
            ELSE [st |-> mm_free(memcpy(m.st, m.ret, ptr, oldsize), ptr), ret |-> m.ret]
    IN  IF asize <= oldsize
        THEN [st |-> mm_realloc_shrink(st, oldblock, oldsize, asize), ret |-> ptr]
        ELSE IF is_fence(st, next_bp)
        THEN case2(extend_heap(st, MAX(asize - oldsize, CHUNKSIZE)))
        ELSE IF TagInuse(st.mem[next_bp]) = 0
                /\ asize <= oldsize + blk_size(st, next_bp)
        THEN IF oldsize + blk_size(st, next_bp) - asize >= MIN_BLOCK_SIZE_WORDS
             THEN case3(mark_block_used(list_remove(st, elem_of(next_bp)), oldblock, asize),
                        blk_size(st, next_bp))
             ELSE [st |-> mark_block_used(list_remove(st, elem_of(next_bp)), oldblock,
                                          oldsize + blk_size(st, next_bp)),
                   ret |-> ptr]
        ELSE IF TagInuse(st.mem[next_bp]) = 0
                /\ is_fence(st, next_blk(st, next_bp))
        THEN case4(extend_heap(st, MAX(asize - oldsize - blk_size(st, next_bp), CHUNKSIZE)))
        ELSE moved(mm_malloc(st, size))

\* mm_realloc without the test for size 0
mm_realloc_no_zero_test(st, ptr, size) ==
    IF ptr = NULL THEN mm_malloc(st, size)
    ELSE mm_realloc_resize(st, ptr, size)

mm_realloc(st, ptr, size) ==
    IF ptr = NULL THEN mm_malloc(st, size)
    ELSE IF size_is_zero(size)
    THEN [st |-> mm_free(st, ptr), ret |-> NULL]
    ELSE mm_realloc_resize(st, ptr, size)

\* ------------------------------------------------------------------------
\* The allocator's state and its client
VARIABLES
    mem,      \* the heap words, mem[0 .. brk-1]
    brk,      \* words obtained from the region provider
    segList,  \* the sentinels of the NLISTS segregated lists
    live,     \* the client's live pointers and the bytes requested for each
    last,     \* the most recent public call: arguments, result, and whether
              \* the region provider refused an extension during it
    calls     \* the number of calls the client has made so far

vars == <<mem, brk, segList, live, last, calls>>

State == [mem |-> mem, brk |-> brk, seg |-> segList, refused |-> FALSE]

\* request sizes the client uses: 0, 12 and 1000 bytes (adjusted to 6 and 252
\* words) and 2^32 - 8, where size + 8 wraps around to 0 (adjusted to 4 words)
Sizes == {SizeOf(0), SizeOf(12), SizeOf(1000), SizeT(SZ_Q - 1, 0)}

\* the word a client memset stores
DataWord == 256 * 205 + 205

\* the words of a block's payload
capacity_words(st, blk) == blk_size(st, blk) - (2 * TAG_BYTES) \div WSIZE

\* memset by the client of the bytes it asked for: word j of the payload gets
\* DataWord + j.  A request larger than the block it was given is not
\* written at all.
client_fill(st, ptr, size) ==
    IF ptr = NULL \/ size_ge(size, WSIZE * capacity_words(st, block_of(ptr)) + 1)
    THEN st
    ELSE LET n == size_words_capped(size, capacity_words(st, block_of(ptr)))
         IN  [st EXCEPT !.mem = [i \in DOMAIN st.mem |->
                                   IF i >= ptr /\ i < ptr + n
                                   THEN DataWord + (i - ptr) ELSE st.mem[i]]]

Call(op, ptr, size, ret, oom) ==
    [op |-> op, ptr |-> ptr, size |-> size, ret |-> ret, oom |-> oom]

Install(st) ==
    /\ mem' = st.mem
    /\ brk' = st.brk
    /\ segList' = st.seg

Init ==
    /\ mem = [i \in {} |-> FRESH]
    /\ brk = 0
    /\ segList = [k \in 0 .. (NLISTS - 1) |->
                    [hp |-> NULL, hn |-> NULL, tp |-> NULL, tn |-> NULL]]
    /\ live = [p \in {} |-> SizeOf(0)]
    /\ last = Call("none", NULL, SizeOf(0), NULL, FALSE)
    /\ calls = 0

\* one more call
Count ==
    /\ calls < MaxCalls
    /\ calls' = calls + 1

\* mm_init(), called before anything else (malloc and free call it
\* themselves on a heap that was never initialised)
MmInit ==
    /\ Count
    /\ segList[0].hn = NULL
    /\ \E r \in {mm_init(State)} :
          /\ Install(r.st)
          /\ last' = Call("init", NULL, SizeOf(0), r.ret, r.st.refused)
    /\ UNCHANGED live

\* p = mm_malloc(size), after which the client fills what it asked for
Malloc(size) ==
    /\ Count
    /\ Cardinality(DOMAIN live) < MaxLive
    /\ \E r \in {mm_malloc(State, size)} :
          /\ \E st \in {client_fill(r.st, r.ret, size)} : Install(st)
          /\ last' = Call("malloc", NULL, size, r.ret, r.st.refused)
          /\ live' = IF r.ret = NULL THEN live
                     ELSE [p \in DOMAIN live \cup {r.ret} |->
                             IF p = r.ret THEN size ELSE live[p]]

\* mm_free(ptr) of a live pointer, or of NULL
Free(ptr) ==
    /\ Count
    /\ \E st \in {mm_free(State, ptr)} : Install(st)
    /\ last' = Call("free", ptr, SizeOf(0), NULL, FALSE)
    /\ live' = [p \in DOMAIN live \ {ptr} |-> live[p]]

\* q = mm_realloc(ptr, size) of a live pointer, or of NULL
Realloc(ptr, size) ==
    /\ Count
    /\ ptr = NULL => Cardinality(DOMAIN live) < MaxLive
    /\ \E r \in {mm_realloc(State, ptr, size)} :
          /\ Install(r.st)
          /\ last' = Call("realloc", ptr, size, r.ret, r.st.refused)
          /\ live' = IF r.ret = NULL /\ ~size_is_zero(size) THEN live
                     ELSE [p \in (DOMAIN live \ {ptr}) \cup ({r.ret} \ {NULL}) |->
                             IF p = r.ret THEN size ELSE live[p]]

Next ==
    \/ MmInit
    \/ \E size \in Sizes : Malloc(size)
    \/ \E ptr \in DOMAIN live \cup {NULL} : Free(ptr)
    \/ \E ptr \in DOMAIN live \cup {NULL}, size \in Sizes : Realloc(ptr, size)

Spec == Init /\ [][Next]_vars

\* ------------------------------------------------------------------------
\* Views of the heap used to state the properties: the same walks the heap
\* checker makes

\* the lazy-init test of mm_malloc and mm_free
initialized == segList[0].hn # NULL

\* the blocks met walking from the first header by adding sizes, until a tag
\* of size 0 or the end of the region
RECURSIVE heap_blocks_from(_, _)
heap_blocks_from(st, n) ==
    IF n < 1 \/ n >= st.brk THEN <<>>
    ELSE IF TagSize(st.mem[n]) <= 0 THEN <<>>
    ELSE <<n>> \o heap_blocks_from(st, n + TagSize(st.mem[n]))

\* where that walk stops
RECURSIVE heap_walk_end(_, _)
heap_walk_end(st, n) ==
    IF n < 1 \/ n >= st.brk THEN n
    ELSE IF TagSize(st.mem[n]) <= 0 THEN n
    ELSE heap_walk_end(st, n + TagSize(st.mem[n]))

HeapBlocks == heap_blocks_from(State, 1)
BlockSet == {HeapBlocks[i] : i \in DOMAIN HeapBlocks}
IsFree(b) == TagInuse(mem[b]) = 0
FreeBlocks == {b \in BlockSet : IsFree(b)}
UsedBlocks == {b \in BlockSet : ~IsFree(b)}

\* the blocks of list k from front to back (at most fuel of them)
RECURSIVE list_blocks_from(_, _, _, _)
list_blocks_from(st, k, e, fuel) ==
    IF e = list_end(k) \/ fuel = 0 THEN <<>>
    ELSE IF e < 1 \/ e + 1 >= st.brk THEN <<e>>
    ELSE <<get_blk(e)>> \o list_blocks_from(st, k, list_next(st, e), fuel - 1)

ListBlocks(k) == list_blocks_from(State, k, list_begin(State, k), brk)

\* how many times block b occurs in the segregated lists
Occurrences(b) ==
    Cardinality({ki \in UNION {{<<k, i>> : i \in DOMAIN ListBlocks(k)} : k \in 0 .. (NLISTS - 1)} :
                   ListBlocks(ki[1])[ki[2]] = b})

\* s <= n, for an integer byte count n >= 0
size_le(s, n) == (s.q < n \div 8) \/ (s.q = n \div 8 /\ s.r <= n % 8)

\* [4p, 4p + s) and [4q, 4q + s2) do not meet (p, q word offsets)
RangesDisjoint(p, s, q, s2) ==
    IF p <= q THEN size_le(s, WSIZE * (q - p)) ELSE size_le(s2, WSIZE * (p - q))

\* [4p, 4p + s) does not meet the words of block b
RangeOffBlock(p, s, b) ==
    IF p <= b THEN size_le(s, WSIZE * (b - p)) ELSE b + blk_size(State, b) <= p

\* ------------------------------------------------------------------------
\* C1: the byte ranges [payload, payload + requested bytes) of two live
\* pointers never overlap, and none overlaps the words of a free block.
NonOverlap ==
    /\ \A p \in DOMAIN live : \A q \in DOMAIN live \ {p} :
          RangesDisjoint(p, live[p], q, live[q])
    /\ \A p \in DOMAIN live : \A b \in FreeBlocks :
          RangeOffBlock(p, live[p], b)

\* C2: after every public call no two blocks adjacent in the heap are both
\* free.
NoAdjacentFree ==
    initialized =>
        \A b \in BlockSet :
            ~(IsFree(b) /\ TagInuse(mem[next_blk_header(State, b)]) = 0)

\* C3: after every public call a block is in exactly one segregated list
\* iff its inuse bit is 0; a used block is in no list, no block is listed
\* twice, and the lists hold nothing but blocks of the heap.
Listing ==
    initialized =>
        /\ \A b \in BlockSet : Occurrences(b) = (IF IsFree(b) THEN 1 ELSE 0)
        /\ \A k \in 0 .. (NLISTS - 1) : \A i \in DOMAIN ListBlocks(k) :
              ListBlocks(k)[i] \in BlockSet

\* C3 witness: a used block next to free blocks that sit in two different
\* lists, after a realloc
ListingWitness ==
    /\ initialized
    /\ last.op = "realloc"
    /\ UsedBlocks # {}
    /\ Cardinality({k \in 0 .. (NLISTS - 1) : ListBlocks(k) # <<>>}) >= 2

\* C4: after every public call the heap is the opening FENCE, blocks of at
\* least MIN_BLOCK_SIZE_WORDS words each starting where the previous one
\* ends, and the epilogue FENCE in the last word obtained from the region
\* provider; the walk by sizes ends exactly on that FENCE.
Tiling ==
    initialized =>
        /\ mem[0] = FENCE
        /\ \A b \in BlockSet : blk_size(State, b) >= MIN_BLOCK_SIZE_WORDS
        /\ heap_walk_end(State, 1) = brk - 1
        /\ mem[brk - 1] = FENCE

\* C4 witness: a heap that was extended once and holds at least four blocks
TilingWitness ==
    /\ initialized
    /\ brk = CHUNKSIZE + CHUNKSIZE + 2
    /\ Len(HeapBlocks) >= 4

\* C5: whenever no allocation is live, the heap is a single free block
\* between the two FENCEs.
AllFreedIsOneBlock ==
    (initialized /\ DOMAIN live = {}) =>
        /\ mem[1] = Tag(0, brk - 2)
        /\ mem[brk - 1] = FENCE

\* C6: whenever malloc(s) returns a pointer, for any s > 0 of size_t, the
\* block behind it has a payload of at least s bytes.
MallocSizeHonored ==
    (last.op = "malloc" /\ last.ret # NULL) =>
        size_le(last.size, WSIZE * capacity_words(State, block_of(last.ret)))

\* a <= b and min(a, b) on size_t
size_leq(a, b) == a.q < b.q \/ (a.q = b.q /\ a.r <= b.r)
size_min(a, b) == IF size_leq(a, b) THEN a ELSE b

\* the words that hold the first min(old request, new request) bytes of the
\* block behind ptr
PreservedWords(ptr, size) ==
    {j \in 0 .. (size_words_capped(size_min(live[ptr], size), brk) - 1) :
        ptr + j < brk}

\* C7: a successful realloc(p, s) of a live p, s > 0, returns a pointer whose
\* first min(old request, s) payload bytes are those p held before the call.
ReallocPreserves ==
    [][(last'.op = "realloc" /\ last'.ptr # NULL /\ last'.ret # NULL) =>
          \A j \in PreservedWords(last'.ptr, last'.size) :
              mem'[last'.ret + j] = mem[last'.ptr + j]]_vars

\* C8: every block has an even number of words and its header at an odd
\* word offset from the (8-aligned) heap base, so that every pointer handed
\* out by malloc or realloc is at a multiple of 8 bytes.
Alignment ==
    initialized =>
        /\ \A b \in BlockSet : blk_size(State, b) % 2 = 0 /\ b % 2 = 1
        /\ \A p \in DOMAIN live :
              (WSIZE * p) % DSIZE = 0 /\ block_of(p) \in UsedBlocks
        /\ (last.op \in {"malloc", "realloc"} /\ last.ret # NULL) =>
              (WSIZE * last.ret) % DSIZE = 0

\* C8 witness: a realloc that moved its block while another pointer is live,
\* in a heap with a block that is not a multiple of 4 words
AlignmentWitness ==
    /\ initialized
    /\ last.op = "realloc" /\ last.ptr # NULL
    /\ last.ret # NULL /\ last.ret # last.ptr
    /\ Cardinality(DOMAIN live) = 2
    /\ \E b \in BlockSet : blk_size(State, b) % 4 = 2

\* C9: when the region provider refuses an extension during malloc or
\* realloc on an initialized heap, the call returns null and leaves every
\* word of the heap, every list and the heap extent as they were; the
\* client's pointers (the block given to realloc among them) stay as they are.
RefusalLeavesHeap ==
    [][(initialized /\ last'.op \in {"malloc", "realloc"} /\ last'.oom) =>
          /\ last'.ret = NULL
          /\ mem' = mem /\ brk' = brk /\ segList' = segList
          /\ live' = live
          /\ (last'.ptr # NULL =>
                /\ block_of(last'.ptr) \in UsedBlocks
                /\ mem'[block_of(last'.ptr)] = mem[block_of(last'.ptr)])]_vars

\* C9 witness: a realloc of a live pointer that was refused
RefusalWitness ==
    /\ initialized
    /\ last.op = "realloc" /\ last.ptr \in DOMAIN live
    /\ last.oom /\ last.ret = NULL

\* C10: realloc(null, s) returns what malloc(s) returns and leaves the heap
\* malloc(s) leaves; realloc(p, 0) for a live p returns null and leaves the
\* heap free(p) leaves.
ReallocIdentity ==
    [][(last'.op = "realloc" /\ last'.ptr = NULL =>
            /\ last'.ret = mm_malloc(State, last'.size).ret
            /\ mem' = mm_malloc(State, last'.size).st.mem
            /\ brk' = mm_malloc(State, last'.size).st.brk
            /\ segList' = mm_malloc(State, last'.size).st.seg)
       /\ (last'.op = "realloc" /\ last'.ptr # NULL /\ size_is_zero(last'.size) =>
            /\ last'.ret = NULL
            /\ mem' = mm_free(State, last'.ptr).mem
            /\ brk' = mm_free(State, last'.ptr).brk
            /\ segList' = mm_free(State, last'.ptr).seg
            /\ TagInuse(mem'[block_of(last'.ptr)]) = 0)]_vars

\* C10 witness: realloc(p, 0) of a live p while another pointer is live
ReallocIdentityWitness ==
    /\ initialized
    /\ last.op = "realloc" /\ last.ptr # NULL /\ size_is_zero(last.size)
    /\ last.ret = NULL
    /\ last.ptr \notin DOMAIN live /\ DOMAIN live # {}

\* ------------------------------------------------------------------------
\* bucket(w): the list that insert chooses for a block of w words
bucket(w) == insert_bucket(0, w)[1]

\* block b is a member of list k
InList(b, k) == \E i \in DOMAIN ListBlocks(k) : ListBlocks(k)[i] = b

\* C11: after every public call every free block of w words is a member of
\* list bucket(w); the free remainder of a split is in the list of its new
\* size.
BucketMatches ==
    initialized =>
        \A b \in FreeBlocks : InList(b, bucket(blk_size(State, b)))

\* C12: after every public call every block's header tag equals the footer
\* tag in the last word of the block.
TagsEqual ==
    initialized =>
        \A b \in BlockSet : mem[get_footer(State, b)] = mem[b]

\* C12 witness: a heap with a used block and at least two free blocks after
\* a free, every header equal to its footer
TagsEqualWitness ==
    /\ initialized
    /\ last.op = "free" /\ last.ptr # NULL
    /\ UsedBlocks # {}
    /\ Cardinality(FreeBlocks) >= 2
    /\ \A b \in BlockSet : mem[get_footer(State, b)] = mem[b]

\* C13: on an initialized heap malloc(0) returns null and free(null) returns
\* without effect; both leave every word of the heap (every block tag among
\* them), every list and the heap extent unchanged.
NullCallsNoEffect ==
    [][(initialized /\ ((last'.op = "malloc" /\ last'.size = SizeOf(0))
                        \/ (last'.op = "free" /\ last'.ptr = NULL))) =>
          /\ last'.ret = NULL
          /\ mem' = mem /\ brk' = brk /\ segList' = segList
          /\ live' = live]_vars

\* C13 witness: malloc(0) has returned null on a heap with a live block and
\* a free block
NullCallsWitness ==
    /\ initialized
    /\ last.op = "malloc" /\ last.size = SizeOf(0) /\ last.ret = NULL
    /\ UsedBlocks # {} /\ FreeBlocks # {}
    /\ DOMAIN live # {}

\* block b is free and both its neighbours are in use (allocated or FENCE)
IsolatedFree(b) ==
    /\ b \in FreeBlocks
    /\ TagInuse(mem[prev_blk_footer(b)]) # 0
    /\ TagInuse(mem[next_blk_header(State, b)]) # 0

\* C14: when the last call was free(a), leaving a's block of n words free
\* between two neighbours in use, and the next call is a malloc whose
\* adjusted request is exactly n words, that malloc returns a.
FreedSlotReused ==
    [][(/\ last.op = "free" /\ last.ptr # NULL
        /\ IsolatedFree(block_of(last.ptr))
        /\ last'.op = "malloc"
        /\ ~size_is_zero(last'.size)
        /\ adjust_size(last'.size) = blk_size(State, block_of(last.ptr))) =>
          last'.ret = last.ptr]_vars

\* C14 witness: free(a) has just left a's block free between two neighbours
\* in use while another free block of the heap is large enough for the same
\* request, and a malloc of exactly that many words is possible and gives a
FreedSlotWitness ==
    /\ initialized
    /\ last.op = "free" /\ last.ptr # NULL
    /\ IsolatedFree(block_of(last.ptr))
    /\ calls < MaxCalls /\ Cardinality(DOMAIN live) < MaxLive
    /\ \E b \in FreeBlocks \ {block_of(last.ptr)} :
          blk_size(State, b) >= blk_size(State, block_of(last.ptr))
    /\ \E size \in Sizes :
          /\ ~size_is_zero(size)
          /\ adjust_size(size) = blk_size(State, block_of(last.ptr))
          /\ mm_malloc(State, size).ret = last.ptr

\* C15: realloc(p, s) of a live p, s > 0, whose adjusted need is at most the
\* old_words of p's block returns p; if old_words - need >= MIN the block
\* becomes need words and the tail of old_words - need words a free block
\* that is in a free list, otherwise the heap is left exactly unchanged.
ShrinkInPlace ==
    [][(/\ last'.op = "realloc" /\ last'.ptr # NULL
        /\ ~size_is_zero(last'.size)
        /\ adjust_size(last'.size) <= blk_size(State, block_of(last'.ptr))) =>
          /\ last'.ret = last'.ptr
          /\ IF blk_size(State, block_of(last'.ptr)) - adjust_size(last'.size)
                  >= MIN_BLOCK_SIZE_WORDS
             THEN /\ mem'[block_of(last'.ptr)] = Tag(1, adjust_size(last'.size))
                  /\ mem'[block_of(last'.ptr) + adjust_size(last'.size)]
                        = Tag(0, blk_size(State, block_of(last'.ptr))
                                   - adjust_size(last'.size))
                  /\ \E tail \in {block_of(last'.ptr) + adjust_size(last'.size)} :
                        (tail \in FreeBlocks /\ Occurrences(tail) = 1)'
             ELSE mem' = mem /\ brk' = brk /\ segList' = segList]_vars

\* C15 witness: a realloc has shrunk a 252-word block to 6 words in place,
\* leaving a free tail of 246 words behind it
ShrinkWitness ==
    /\ initialized
    /\ last.op = "realloc" /\ last.ptr # NULL /\ last.ret = last.ptr
    /\ last.size = SizeOf(12)
    /\ blk_size(State, block_of(last.ptr)) = 6
    /\ block_of(last.ptr) + 6 \in FreeBlocks
    /\ blk_size(State, block_of(last.ptr) + 6) = 246

\* C16: after every public call each segregated list is in non-decreasing
\* size order from front to back: no element is followed by a strictly
\* smaller one.
ListsOrdered ==
    initialized =>
        \A k \in 0 .. (NLISTS - 1) :
            \A i \in 1 .. (Len(ListBlocks(k)) - 1) :
                blk_size(State, ListBlocks(k)[i]) <= blk_size(State, ListBlocks(k)[i + 1])

\* the same for the lists all of whose members have the size of their bucket
ListsOrderedInBucket ==
    initialized =>
        \A k \in 0 .. (NLISTS - 1) :
            (\A i \in DOMAIN ListBlocks(k) : bucket(blk_size(State, ListBlocks(k)[i])) = k) =>
                \A i \in 1 .. (Len(ListBlocks(k)) - 1) :
                    blk_size(State, ListBlocks(k)[i]) <= blk_size(State, ListBlocks(k)[i + 1])

\* the no-copy grow cases of mm_realloc for the block behind ptr and a need
\* of asize words: "B" next tag is the epilogue FENCE, "C" next block is free
\* and large enough, "D" next block is free, too small and followed by the
\* epilogue FENCE, "none" otherwise
GrowCase(ptr, asize) ==
    LET oldblock == block_of(ptr)
        oldsize == blk_size(State, oldblock)
        next_bp == oldblock + oldsize
    IN  IF asize <= oldsize THEN "none"
        ELSE IF is_fence(State, next_bp) THEN "B"
        ELSE IF TagInuse(mem[next_bp]) # 0 THEN "none"
        ELSE IF asize <= oldsize + blk_size(State, next_bp) THEN "C"
        ELSE IF is_fence(State, next_blk(State, next_bp)) THEN "D"
        ELSE "none"

\* C17: when realloc(p, s) needs more words than p's block has and the
\* region provider does not refuse, each no-copy grow case (B, C, D) returns
\* p with the block at least need words long and the absorbed free block in
\* no list; case C splits off a free, listed tail exactly when the surplus
\* is at least MIN words.
GrowInPlace ==
    [][(/\ last'.op = "realloc" /\ last'.ptr # NULL
        /\ ~size_is_zero(last'.size)
        /\ ~last'.oom
        /\ GrowCase(last'.ptr, adjust_size(last'.size)) # "none") =>
          \E b \in {block_of(last'.ptr)}, need \in {adjust_size(last'.size)} :
          \E old \in {blk_size(State, b)} :
          \E nsize \in {blk_size(State, b + old)} :
            /\ last'.ret = last'.ptr
            /\ (b \in UsedBlocks /\ blk_size(State, b) >= need)'
            /\ (Occurrences(b + old) = 0)'
            /\ GrowCase(last'.ptr, need) = "C" =>
                  IF old + nsize - need >= MIN_BLOCK_SIZE_WORDS
                  THEN (/\ blk_size(State, b) = need
                        /\ b + need \in FreeBlocks
                        /\ blk_size(State, b + need) = old + nsize - need
                        /\ Occurrences(b + need) = 1)'
                  ELSE (blk_size(State, b) = old + nsize)']_vars

\* a realloc of a live pointer that falls under grow case c is possible, is
\* not refused and gives back its argument
GrowReachable(c) ==
    /\ initialized
    /\ calls < MaxCalls
    /\ \E p \in DOMAIN live, size \in Sizes :
          /\ ~size_is_zero(size)
          /\ GrowCase(p, adjust_size(size)) = c
          /\ ~mm_realloc(State, p, size).st.refused
          /\ mm_realloc(State, p, size).ret = p

\* C17 witness: the rarest of the three cases, D, for the only live block
GrowWitness ==
    /\ GrowReachable("D")
    /\ Cardinality(DOMAIN live) = 1

\* what coalesce(b) must leave for the block b of n words that mm_free has
\* just marked free: pf and nf tell whether the previous and the next block
\* were free, of psize and nsize words
CoalesceResult(b, n, pf, psize, nf, nsize) ==
    LET r == IF pf THEN b - psize ELSE b
        total == n + (IF pf THEN psize ELSE 0) + (IF nf THEN nsize ELSE 0)
    IN  /\ r \in FreeBlocks
        /\ blk_size(State, r) = total
        /\ Occurrences(r) = 1
        /\ pf => Occurrences(b) = 0
        /\ nf => Occurrences(b + n) = 0
        /\ TagInuse(mem[prev_blk_footer(r)]) # 0
        /\ TagInuse(mem[next_blk_header(State, r)]) # 0

\* C18: coalesce(b), called by mm_free on the block it has just marked free,
\* leaves a free block that starts at the previous block if that one was
\* free (else at b), whose size is the sum of b and each free neighbour; the
\* absorbed neighbours are in no list, the result is in exactly one list,
\* and neither neighbour of the result is free.
CoalesceContract ==
    [][(initialized /\ last'.op = "free" /\ last'.ptr # NULL) =>
          \E b \in {block_of(last'.ptr)} :
          \E n \in {blk_size(State, b)} :
          \E pf \in {TagInuse(mem[prev_blk_footer(b)]) = 0},
             nf \in {TagInuse(mem[next_blk_header(State, b)]) = 0} :
          \E psize \in {TagSize(mem[prev_blk_footer(b)])},
             nsize \in {TagSize(mem[next_blk_header(State, b)])} :
            CoalesceResult(b, n, pf, psize, nf, nsize)']_vars

\* C19: on the fallback path of realloc (the result is a new block) exactly
\* min(old_payload_bytes, size_bytes) bytes are copied, old_payload_bytes =
\* old_words * 4 - 8: the words of the new payload behind them are as
\* mm_malloc left them.
FallbackCopiesMin ==
    [][(/\ last'.op = "realloc" /\ last'.ptr # NULL
        /\ last'.ret # NULL /\ last'.ret # last'.ptr) =>
          \E m \in {mm_malloc(State, last'.size)} :
          \E copied \in {size_words_capped(last'.size,
                                           capacity_words(State, block_of(last'.ptr)))} :
            \A j \in copied .. (capacity_words(m.st, block_of(m.ret)) - 1) :
                mem'[last'.ret + j] = m.st.mem[m.ret + j]]_vars

\* the call place(bp, awords) that mm_malloc(size) makes on an initialized
\* heap: on the block find_fit returns, or else on the block extend_heap
\* returns (ret is NULL when extend_heap fails)
PlaceCall(size) ==
    LET found(bp) ==
            IF bp # NULL THEN [st |-> State, ret |-> bp]
            ELSE extend_heap(State, MAX(adjust_size(size), CHUNKSIZE))
    IN  found(find_fit(State, adjust_size(size)))

FitSizes == {adjust_size(size) : size \in Sizes \ {SizeOf(0)}}

\* C21: in every reachable state find_fit(n) returns null only if no free
\* block of the heap has n words or more, so that mm_malloc extends the heap
\* only when no free block can hold the request; every listed block of w
\* words is in a list k with bucket(w) <= k.
FitFoundIfAny ==
    initialized =>
        /\ \A n \in FitSizes :
              find_fit(State, n) = NULL =>
                  \A b \in FreeBlocks : blk_size(State, b) < n
        /\ \A size \in Sizes \ {SizeOf(0)} :
              mm_malloc(State, size).st.brk > brk =>
                  \A b \in FreeBlocks : blk_size(State, b) < adjust_size(size)
        /\ \A k \in 0 .. (NLISTS - 1) : \A i \in DOMAIN ListBlocks(k) :
              bucket(blk_size(State, ListBlocks(k)[i])) <= k

\* C21 witness: a malloc has extended the heap; a free block sits in a list
\* above the one of its size, and find_fit returns null for one request
\* size and a block for another
FitWitness ==
    /\ initialized
    /\ last.op = "malloc" /\ last.ret # NULL
    /\ brk > CHUNKSIZE + 2
    /\ \E b \in FreeBlocks : \E k \in 0 .. (NLISTS - 1) :
          InList(b, k) /\ bucket(blk_size(State, b)) < k
    /\ \E n \in FitSizes : find_fit(State, n) = NULL
    /\ \E n \in FitSizes : find_fit(State, n) # NULL

====
